---- MODULE Spec2Model ----
(***************************************************************************)
(* Model of src/app/page.tsx (ImageToPDFConverter): the selection list,    *)
(* the asynchronous handleGeneratePDF pipeline with one state per await,   *)
(* and the pure helpers removeFileExtension and resizeImage's dimension    *)
(* arithmetic.                                                             *)
(***************************************************************************)
EXTENDS Integers, Sequences, FiniteSets, TLC

\* ------------------------------------------------------------------ bounds

\* Longest selection list explored.
MaxFiles == 4
\* Most files accepted by one drop.
MaxDrop == 2
\* Most pipeline runs started in one behaviour.
MaxRuns == 2
\* Longest filename explored by the removeFileExtension specification.
MaxNameLen == 5
\* Image sides explored by the resizeImage specification: multiples of DimStep.
DimStep == 400
MaxDimSteps == 9

\* ------------------------------------------------------- program constants

maxWidth == 1600
maxHeight == 1200
ProgressLoopSpan == 90
ProgressDone == 100

\* ------------------------------------------------------------------- state

VARIABLES
    files,          \* useState<File[]>: the selection list (each File by its name)
    isGenerating,   \* useState(false)
    progress,       \* useState(0): a rational <<numerator, denominator>>
    runs,           \* the invocations of handleGeneratePDF: closure and position
    downloads,      \* number of link.click() on an images.pdf link
    errorLog,       \* number of console.error("Error generating PDF:", ...)
    filename,       \* removeFileExtension: argument
    label,          \* removeFileExtension: result
    img,            \* resizeImage: <<img.width, img.height>> of the decoded source
    canvas,         \* resizeImage: <<canvas.width, canvas.height>>
    called          \* whether the helper under study has returned

uiVars == <<files, isGenerating, progress>>
pipeVars == <<files, isGenerating, progress, runs, downloads, errorLog>>
extVars == <<filename, label>>
resizeVars == <<img, canvas>>
vars == <<files, isGenerating, progress, runs, downloads, errorLog,
          filename, label, img, canvas, called>>

\* ------------------------------------------------------------ pure helpers

\* Filenames are sequences of characters.
Chars == {"a", "b", "."}

\* The File objects a user can drop: "a.b" and "b.a.b".
FileNames == { <<"a", ".", "b">>, <<"b", ".", "a", ".", "b">> }

\* String.prototype.lastIndexOf: the 0-based index of the last ch, -1 if none.
RECURSIVE LastIndexOf(_, _)
LastIndexOf(s, ch) ==
    IF Len(s) = 0 THEN -1
    ELSE IF s[Len(s)] = ch THEN Len(s) - 1
    ELSE LastIndexOf(SubSeq(s, 1, Len(s) - 1), ch)

\* String.prototype.substring(0, end).
Substring0(s, end) == SubSeq(s, 1, end)

removeFileExtension_KeepsFirstDot(name) ==
    LET RECURSIVE FirstIndexOf(_, _)
        FirstIndexOf(s, k) ==
            IF k > Len(s) THEN -1
            ELSE IF s[k] = "." THEN k - 1
            ELSE FirstIndexOf(s, k + 1)
        firstDotIndex == FirstIndexOf(name, 1)
    IN IF firstDotIndex = -1 THEN name ELSE Substring0(name, firstDotIndex)

removeFileExtension(name) ==
    LET lastDotIndex == LastIndexOf(name, ".")
    IN IF lastDotIndex = -1 THEN name ELSE Substring0(name, lastDotIndex)

\* Array.prototype.filter((_, i) => i !== index), index 0-based.
RECURSIVE FilterIndexNot(_, _, _)
FilterIndexNot(s, index, i) ==
    IF i >= Len(s) THEN << >>
    ELSE (IF i # index THEN << s[i + 1] >> ELSE << >>)
         \o FilterIndexNot(s, index, i + 1)

\* Rationals <<n, d>> with d > 0.
RatLe(p, q) == p[1] * q[2] <= q[1] * p[2]
RatLt(p, q) == p[1] * q[2] < q[1] * p[2]
RatEq(p, q) == p[1] * q[2] = q[1] * p[2]

\* ---------------------------------------------------------------- pipeline

\* Where an invocation of handleGeneratePDF stands: the await it is suspended
\* at, or how it ended.
AwaitPcs == {"create", "embedFont", "fileToDataUrl", "resizeImage",
             "addWatermark", "embedPng", "save"}
\* The awaits whose promise can reject (PDFDocument.create, embedFont,
\* FileReader's onerror, embedPng, save); the throw lands in the catch.
RejectingPcs == {"create", "embedFont", "fileToDataUrl", "embedPng", "save"}
\* The awaits on a promise that only img.onload resolves.
ImageLoadPcs == {"resizeImage", "addWatermark"}
EndedPcs == {"done", "failed"}

\* An invocation that has not happened yet, and one whose locals are gone.
NoRun == [pc |-> "unstarted", files |-> << >>, i |-> 0, pages |-> << >>]
Ended(how) == [pc |-> how, files |-> << >>, i |-> 0, pages |-> << >>]

RunIds == 1 .. MaxRuns
Started(r) == runs[r].pc # "unstarted"
InProgress(r) == runs[r].pc \in AwaitPcs \cup {"pendingForever"}

\* `files.length` as the running closure reads it: the array of the render
\* that created the handler, not the current state.
CapturedLength_LiveState(run) == Len(files)

CapturedLength(run) == Len(run.files)

\* One page of pdfDoc: the embedded image of the entry and the title drawn.
PageOf(file) == [image |-> file, title |-> removeFileExtension(file)]

\* The loop body after `await pdfDoc.embedPng(...)`: addPage, drawImage,
\* drawText of the title, and the loop's i++.
AssemblePage_SkipsRepeatedFile(run) ==
    IF \E k \in 1 .. Len(run.pages) : run.pages[k].image = run.files[run.i + 1]
    THEN [run EXCEPT !.i = @ + 1]
    ELSE [run EXCEPT !.pages = Append(@, PageOf(run.files[run.i + 1])),
                     !.i = @ + 1]

AssemblePage(run) ==
    [run EXCEPT !.pages = Append(@, PageOf(run.files[run.i + 1])),
                !.i = @ + 1]

LoopHead_ProgressAfterEntry(run, prog) ==
    IF run.i < CapturedLength(run)
    THEN << [run EXCEPT !.pc = "fileToDataUrl"],
            << (run.i + 1) * ProgressLoopSpan, CapturedLength(run) >> >>
    ELSE << [run EXCEPT !.pc = "save"], prog >>

\* The head of `for (let i = 0; i < files.length; i++)` with the loop's first
\* statement setProgress((i / files.length) * 90), or the fall-through to
\* `await pdfDoc.save()`. Gives <<run, progress>>.
LoopHead(run, prog) ==
    IF run.i < CapturedLength(run)
    THEN << [run EXCEPT !.pc = "fileToDataUrl"],
            << run.i * ProgressLoopSpan, CapturedLength(run) >> >>
    ELSE << [run EXCEPT !.pc = "save"], prog >>

\* <Button disabled={files.length === 0 || isGenerating}>
GenerateDisabled_IgnoresGenerating == Len(files) = 0

GenerateDisabled == Len(files) = 0 \/ isGenerating

\* onDrop: setFiles((prev) => [...prev, ...acceptedFiles])
Accepted == UNION { [1 .. n -> FileNames] : n \in 1 .. MaxDrop }

onDrop(acceptedFiles) ==
    /\ Len(files) + Len(acceptedFiles) <= MaxFiles
    /\ files' = files \o acceptedFiles
    /\ UNCHANGED <<isGenerating, progress, runs, downloads, errorLog>>
    /\ UNCHANGED <<filename, label, img, canvas, called>>

\* handleRemoveFile: setFiles((prev) => prev.filter((_, i) => i !== index))
handleRemoveFile(index) ==
    /\ files' = FilterIndexNot(files, index, 0)
    /\ UNCHANGED <<isGenerating, progress, runs, downloads, errorLog>>
    /\ UNCHANGED <<filename, label, img, canvas, called>>

\* handleGeneratePDF past its guard, up to the first await.
StartRun ==
    /\ \E r \in RunIds : ~Started(r)
    /\ LET r == CHOOSE x \in RunIds :
                    ~Started(x) /\ \A y \in RunIds : ~Started(y) => x <= y
       IN runs' = [runs EXCEPT ![r] =
                     [pc |-> "create", files |-> files, i |-> 0, pages |-> << >>]]
    /\ isGenerating' = TRUE
    /\ progress' = <<0, 1>>
    /\ UNCHANGED <<files, downloads, errorLog>>
    /\ UNCHANGED <<filename, label, img, canvas, called>>

handleGeneratePDF_NoEmptyGuard == StartRun

handleGeneratePDF ==
    IF Len(files) = 0 THEN UNCHANGED vars ELSE StartRun

\* The user clicks Generate. React does not deliver clicks to a disabled
\* button, and it re-renders after a click's state updates before the next
\* click is handled, so the handler invoked closes over the current state.
ClickGenerate == ~GenerateDisabled /\ handleGeneratePDF

\* The handler called although the selection is empty.
CallWithEmptySelection == Len(files) = 0 /\ handleGeneratePDF

\* await PDFDocument.create() resolves.
CreateResolved(r) ==
    /\ runs[r].pc = "create"
    /\ runs' = [runs EXCEPT ![r].pc = "embedFont"]
    /\ UNCHANGED <<files, isGenerating, progress, downloads, errorLog>>
    /\ UNCHANGED <<filename, label, img, canvas, called>>

\* await pdfDoc.embedFont(...) resolves; the loop is entered.
EmbedFontResolved(r) ==
    /\ runs[r].pc = "embedFont"
    /\ LET next == LoopHead(runs[r], progress)
       IN /\ runs' = [runs EXCEPT ![r] = next[1]]
          /\ progress' = next[2]
    /\ UNCHANGED <<files, isGenerating, downloads, errorLog>>
    /\ UNCHANGED <<filename, label, img, canvas, called>>

\* await fileToDataUrl(file) resolves (reader.onload); files[i] is a File.
FileToDataUrlResolved(r) ==
    /\ runs[r].pc = "fileToDataUrl"
    /\ runs[r].i < Len(runs[r].files)
    /\ runs' = [runs EXCEPT ![r].pc = "resizeImage"]
    /\ UNCHANGED <<files, isGenerating, progress, downloads, errorLog>>
    /\ UNCHANGED <<filename, label, img, canvas, called>>

\* await resizeImage(dataUrl) resolves (img.onload).
ResizeImageLoaded(r) ==
    /\ runs[r].pc = "resizeImage"
    /\ runs' = [runs EXCEPT ![r].pc = "addWatermark"]
    /\ UNCHANGED <<files, isGenerating, progress, downloads, errorLog>>
    /\ UNCHANGED <<filename, label, img, canvas, called>>

\* await addWatermark(...) resolves (img.onload).
AddWatermarkLoaded(r) ==
    /\ runs[r].pc = "addWatermark"
    /\ runs' = [runs EXCEPT ![r].pc = "embedPng"]
    /\ UNCHANGED <<files, isGenerating, progress, downloads, errorLog>>
    /\ UNCHANGED <<filename, label, img, canvas, called>>

\* The bytes do not decode: the Image fires error, for which resizeImage and
\* addWatermark set no handler, so their promise neither resolves nor rejects.
ImageDecodeError(r) ==
    /\ runs[r].pc \in ImageLoadPcs
    /\ runs' = [runs EXCEPT ![r].pc = "pendingForever"]
    /\ UNCHANGED <<files, isGenerating, progress, downloads, errorLog>>
    /\ UNCHANGED <<filename, label, img, canvas, called>>

\* await pdfDoc.embedPng(...) resolves: addPage, drawImage, drawText, i++, and
\* the loop's next head.
EmbedPngResolved(r) ==
    /\ runs[r].pc = "embedPng"
    /\ LET next == LoopHead(AssemblePage(runs[r]), progress)
       IN /\ runs' = [runs EXCEPT ![r] = next[1]]
          /\ progress' = next[2]
    /\ UNCHANGED <<files, isGenerating, downloads, errorLog>>
    /\ UNCHANGED <<filename, label, img, canvas, called>>

SaveResolved_ClearsSelection(r) ==
    /\ runs[r].pc = "save"
    /\ progress' = <<ProgressDone, 1>>
    /\ downloads' = downloads + 1
    /\ isGenerating' = FALSE
    /\ runs' = [runs EXCEPT ![r] = Ended("done")]
    /\ files' = << >>
    /\ UNCHANGED errorLog
    /\ UNCHANGED <<filename, label, img, canvas, called>>

\* await pdfDoc.save() resolves: setProgress(100), the download link is
\* clicked, and the finally clears isGenerating.
SaveResolved(r) ==
    /\ runs[r].pc = "save"
    /\ progress' = <<ProgressDone, 1>>
    /\ downloads' = downloads + 1
    /\ isGenerating' = FALSE
    /\ runs' = [runs EXCEPT ![r] = Ended("done")]
    /\ UNCHANGED <<files, errorLog>>
    /\ UNCHANGED <<filename, label, img, canvas, called>>

Rejected_SkipsEntry(r) ==
    /\ runs[r].pc \in RejectingPcs
    /\ errorLog' = errorLog + 1
    /\ LET next == LoopHead([runs[r] EXCEPT !.i = @ + 1], progress)
       IN /\ runs' = [runs EXCEPT ![r] = next[1]]
          /\ progress' = next[2]
    /\ UNCHANGED <<files, isGenerating, downloads>>
    /\ UNCHANGED <<filename, label, img, canvas, called>>

\* An awaited promise rejects: catch logs the error, finally clears isGenerating.
Rejected(r) ==
    /\ runs[r].pc \in RejectingPcs
    /\ errorLog' = errorLog + 1
    /\ isGenerating' = FALSE
    /\ runs' = [runs EXCEPT ![r] = Ended("failed")]
    /\ UNCHANGED <<files, progress, downloads>>
    /\ UNCHANGED <<filename, label, img, canvas, called>>

\* The continuations of the runs in progress.
RunStep ==
    \E r \in RunIds :
        \/ CreateResolved(r)
        \/ EmbedFontResolved(r)
        \/ FileToDataUrlResolved(r)
        \/ ResizeImageLoaded(r)
        \/ AddWatermarkLoaded(r)
        \/ ImageDecodeError(r)
        \/ EmbedPngResolved(r)
        \/ SaveResolved(r)
        \/ Rejected(r)

UserStep ==
    \/ \E acceptedFiles \in Accepted : onDrop(acceptedFiles)
    \/ \E index \in 0 .. MaxFiles : handleRemoveFile(index)
    \/ ClickGenerate
    \/ CallWithEmptySelection

PipelineIdle ==
    /\ files = << >>
    /\ isGenerating = FALSE
    /\ progress = <<0, 1>>
    /\ runs = [r \in RunIds |-> NoRun]
    /\ downloads = 0
    /\ errorLog = 0

ProbeIdle ==
    /\ filename = << >> /\ label = << >>
    /\ img = <<0, 0>> /\ canvas = <<0, 0>>
    /\ called = FALSE

Init == PipelineIdle /\ ProbeIdle

Next == UserStep \/ RunStep

Spec == Init /\ [][Next]_vars

\* Every pending promise of a run settles unless nothing can settle it.
FairSpec == Spec /\ WF_vars(RunStep)

\* ------------------------------------------------- removeFileExtension alone

Names == UNION { [1 .. n -> Chars] : n \in 0 .. MaxNameLen }

InitExt ==
    /\ PipelineIdle
    /\ filename \in Names /\ label = << >>
    /\ img = <<0, 0>> /\ canvas = <<0, 0>>
    /\ called = FALSE

CallRemoveFileExtension ==
    /\ ~called
    /\ label' = removeFileExtension(filename)
    /\ called' = TRUE
    /\ UNCHANGED <<filename, img, canvas>>
    /\ UNCHANGED pipeVars

\* The next filename is tried.
NextFilename ==
    /\ called
    /\ filename' \in Names /\ label' = << >>
    /\ called' = FALSE
    /\ UNCHANGED <<img, canvas>>
    /\ UNCHANGED pipeVars

NextExt == CallRemoveFileExtension \/ NextFilename

SpecExt == InitExt /\ [][NextExt]_vars

\* ------------------------------------------------ resizeImage's dimensions

\* Sides of the decoded source image.
Sides == { k * DimStep : k \in 1 .. MaxDimSteps }
            \cup { 1, maxHeight, maxHeight + 1, maxWidth, maxWidth + 1 }

\* Math.min(maxWidth / width, maxHeight / height), as the fraction <<n, d>>.
Ratio_Max(width, height) ==
    IF maxWidth * height <= maxHeight * width
    THEN <<maxHeight, height>> ELSE <<maxWidth, width>>

Ratio(width, height) ==
    IF maxWidth * height <= maxHeight * width
    THEN <<maxWidth, width>> ELSE <<maxHeight, height>>

\* `side * ratio` stored into canvas.width or canvas.height, an unsigned long:
\* the double is truncated. Where the exact product is a whole number the
\* double may sit one ulp below it (2248 * (1200 / 2248) is
\* 1199.9999999999998) or above it, so both truncations are outcomes; elsewhere
\* the product is further from a whole number than any rounding error.
ScaledSide(side, ratio) ==
    LET q == (side * ratio[1]) \div ratio[2]
    IN IF (side * ratio[1]) % ratio[2] = 0 THEN {q - 1, q} ELSE {q}

\* The canvas sizes img.onload of resizeImage can set for a width x height image.
CanvasSizes(width, height) ==
    IF width > maxWidth \/ height > maxHeight
    THEN LET ratio == Ratio(width, height)
         IN ScaledSide(width, ratio) \X ScaledSide(height, ratio)
    ELSE { <<width, height>> }

InitResize ==
    /\ PipelineIdle
    /\ filename = << >> /\ label = << >>
    /\ img \in Sides \X Sides /\ canvas = <<0, 0>>
    /\ called = FALSE

CallResizeImage ==
    /\ ~called
    /\ canvas' \in CanvasSizes(img[1], img[2])
    /\ called' = TRUE
    /\ UNCHANGED <<filename, label, img>>
    /\ UNCHANGED pipeVars

\* The next image is tried.
NextImage ==
    /\ called
    /\ img' \in Sides \X Sides /\ canvas' = <<0, 0>>
    /\ called' = FALSE
    /\ UNCHANGED <<filename, label>>
    /\ UNCHANGED pipeVars

NextResize == CallResizeImage \/ NextImage

SpecResize == InitResize /\ [][NextResize]_vars

\* ------------------------------------------------------------------ claims

EntryPcs == {"fileToDataUrl", "resizeImage", "addWatermark", "embedPng"}
Full == <<ProgressDone, 1>>
InProgressIds == { r \in RunIds : InProgress(r) }

\* C1: the list a run works on is the selection at the moment it was invoked,
\* it stays that list whatever the user adds or removes while the run is
\* suspended, and the document a run exports has as many pages as that list.
C1_PageCountIsInvocationLength ==
    [][\A r \in RunIds :
        /\ (~Started(r) /\ runs'[r].pc # "unstarted") => runs'[r].files = files
        /\ (InProgress(r) /\ runs'[r].pc \notin EndedPcs)
               => runs'[r].files = runs[r].files
        /\ (runs[r].pc = "save" /\ downloads' # downloads)
               => Len(runs[r].pages) = Len(runs[r].files)
      ]_vars

\* C1 witness: a run about to export all its pages while the selection has
\* since grown or shrunk to another length.
C1_Witness ==
    \E r \in RunIds :
        /\ runs[r].pc = "save"
        /\ Len(runs[r].pages) = Len(runs[r].files)
        /\ Len(runs[r].files) >= 2
        /\ Len(files) # Len(runs[r].files)

\* C2: a download happens only from a run whose every entry produced its page
\* and whose serialization succeeded; a run that logs an error ends at once
\* without a download and without progress reaching 100; a run that failed or
\* whose image never loads processes nothing further.
C2_AllOrNothing ==
    [][/\ downloads' # downloads =>
            /\ downloads' = downloads + 1
            /\ errorLog' = errorLog
            /\ \E r \in RunIds :
                 /\ runs[r].pc = "save" /\ runs'[r].pc = "done"
                 /\ Len(runs[r].pages) = Len(runs[r].files)
                 /\ \A k \in 1 .. Len(runs[r].files) :
                        runs[r].pages[k].image = runs[r].files[k]
       /\ errorLog' # errorLog =>
            /\ downloads' = downloads
            /\ progress' = progress
            /\ ~RatEq(progress', Full)
            /\ ~isGenerating'
            /\ \E r \in RunIds : InProgress(r) /\ runs'[r].pc = "failed"
       /\ \A r \in RunIds :
            runs[r].pc \in {"failed", "pendingForever"} => runs'[r] = runs[r]
       /\ \A r \in RunIds : InProgress(r) => ~RatEq(progress, Full)
      ]_vars

\* C2 witness: the first run failed at its second entry of four (progress is
\* left at 22.5) and nothing was downloaded.
C2_Witness ==
    /\ runs[1].pc = "failed"
    /\ ~Started(2)
    /\ RatEq(progress, <<45, 2>>)
    /\ downloads = 0
    /\ errorLog = 1

\* C4: at every point of a run the document's pages are the pages of entries
\* 0..i-1 of the captured list, in order, page k showing entry k's image and
\* the title derived from entry k's filename; the entry being processed is
\* entry i, and serialization starts only with all entries done.
C4_PagesArePrefixInOrder ==
    /\ \A r \in InProgressIds :
         LET run == runs[r]
         IN /\ Len(run.files) >= 1
            /\ run.i <= Len(run.files)
            /\ Len(run.pages) = run.i
            /\ \A k \in 1 .. run.i :
                 /\ run.pages[k].image = run.files[k]
                 /\ run.pages[k].title = removeFileExtension(run.files[k])
            /\ run.pc \in EntryPcs => run.i < Len(run.files)
            /\ run.pc = "save" => run.i = Len(run.files)
            /\ run.pc \in {"create", "embedFont"} => run.i = 0

\* C4 witness: a finished document of three or more pages whose first and
\* third entries are the same file and whose second is another.
C4_Witness ==
    \E r \in RunIds :
        /\ runs[r].pc = "save"
        /\ Len(runs[r].pages) >= 3
        /\ runs[r].files[1] = runs[r].files[3]
        /\ runs[r].files[1] # runs[r].files[2]
        /\ runs[r].pages[2].title = <<"b", ".", "a">>

\* C5: progress is within [0,100]; it is 0 from the start of a run to the
\* first entry, (i / N) * 90 while entry i is processed and during
\* serialization of the N-entry document still that of the last entry, so
\* below 90 for the whole run; 100 is set only by a successful export; and
\* while a run is in progress no step lowers it.
C5_ProgressWithinRun ==
    /\ [](/\ RatLe(<<0, 1>>, progress) /\ RatLe(progress, Full)
          /\ \A r \in InProgressIds :
               LET run == runs[r]
                   N == Len(run.files)
               IN /\ RatLt(progress, <<ProgressLoopSpan, 1>>)
                  /\ run.pc \in {"create", "embedFont"} => progress = <<0, 1>>
                  /\ run.pc \in EntryPcs =>
                        RatEq(progress, <<run.i * ProgressLoopSpan, N>>)
                  /\ run.pc = "save" =>
                        RatEq(progress, <<(N - 1) * ProgressLoopSpan, N>>)
          /\ RatEq(progress, Full) => (downloads >= 1 /\ ~isGenerating))
    /\ [][/\ isGenerating => RatLe(progress, progress')
          /\ (~isGenerating /\ isGenerating') => progress' = <<0, 1>>
          /\ RatEq(progress', Full) /\ ~RatEq(progress, Full)
                => downloads' = downloads + 1
         ]_vars

\* C5 witness: a four-entry run that has reached its last entry, at 67.5.
C5_Witness ==
    \E r \in RunIds :
        /\ Len(runs[r].files) = 4
        /\ runs[r].pc = "embedPng"
        /\ runs[r].i = 3
        /\ RatEq(progress, <<135, 2>>)

\* C3: every run that has started eventually ends with isGenerating cleared.
C3_RunEventuallyEnds == isGenerating ~> ~isGenerating

\* C6: removeFileExtension returns the part of the name before its last '.',
\* and the name itself when it has no '.'; the result is a prefix of the name
\* and has one '.' fewer than a name that has any.
DotCount(s) == Cardinality({ k \in 1 .. Len(s) : s[k] = "." })

C6_StripsLastExtensionOnly ==
    called =>
        /\ Len(label) <= Len(filename)
        /\ label = SubSeq(filename, 1, Len(label))
        /\ DotCount(filename) = 0 => label = filename
        /\ DotCount(filename) >= 1 =>
             /\ filename[Len(label) + 1] = "."
             /\ \A k \in Len(label) + 2 .. Len(filename) : filename[k] # "."
             /\ DotCount(label) = DotCount(filename) - 1
        /\ filename = <<"a", ".", "b">> => label = <<"a">>
        /\ filename = <<"a", ".", "b", ".", "a">> => label = <<"a", ".", "b">>
        /\ filename = <<"a", "b">> => label = <<"a", "b">>

\* C6 witness: a name with two extensions has lost only the last one.
C6_Witness ==
    /\ called
    /\ filename = <<"a", ".", "b", ".", "a">>
    /\ label = <<"a", ".", "b">>

\* C7: an image within 1600 x 1200 keeps its dimensions exactly; a larger one
\* gets a canvas within 1600 x 1200 that is as large as fits (one side within a
\* pixel of its maximum) and each side within a pixel of the source side times
\* r = min(1600 / w, 1200 / h), so the ratio of the sides is kept up to that
\* pixel.
Abs(x) == IF x < 0 THEN -x ELSE x

C7_NormalizedDimensions ==
    called =>
        LET w == img[1]
            h == img[2]
            cw == canvas[1]
            ch == canvas[2]
        IN /\ (w <= maxWidth /\ h <= maxHeight) => canvas = img
           /\ (w > maxWidth \/ h > maxHeight) =>
                /\ cw <= maxWidth /\ ch <= maxHeight
                /\ cw >= 0 /\ ch >= 0
                /\ cw >= maxWidth - 1 \/ ch >= maxHeight - 1
                /\ \/ /\ maxWidth * h <= maxHeight * w
                      /\ Abs(cw * w - w * maxWidth) <= w
                      /\ Abs(ch * w - h * maxWidth) <= w
                   \/ /\ maxHeight * w <= maxWidth * h
                      /\ Abs(cw * h - w * maxHeight) <= h
                      /\ Abs(ch * h - h * maxHeight) <= h
                /\ Abs(cw * h - ch * w) <= (IF w > h THEN w ELSE h)

\* C7 witness: a 3200 x 1201 image scaled by 1/2 on both sides.
C7_Witness ==
    /\ called
    /\ img = <<2 * maxWidth, maxHeight + 1>>
    /\ canvas = <<maxWidth, 600>>

\* C8: while the selection is empty and no run is in progress nothing but the
\* selection itself can change (a call of handleGeneratePDF there starts no
\* run, sets neither isGenerating nor progress, creates and downloads no
\* document), and the Generate button is disabled whenever the selection is
\* empty.
C8_EmptySelectionIsNoOp ==
    /\ [](Len(files) = 0 => GenerateDisabled)
    /\ [][(Len(files) = 0 /\ ~isGenerating) =>
            /\ isGenerating' = isGenerating
            /\ progress' = progress
            /\ runs' = runs
            /\ downloads' = downloads
            /\ errorLog' = errorLog
         ]_vars

\* C8 witness: the selection is empty again after a finished run, and the
\* handler can be called there.
C8_Witness ==
    /\ Len(files) = 0
    /\ ~isGenerating
    /\ runs[1].pc = "done"
    /\ ~Started(2)
    /\ ENABLED CallWithEmptySelection

\* C9: the selection changes only by a drop, which appends the accepted files
\* at the end in their order, or by a removal, which deletes exactly one
\* entry and keeps the others in order; such a step changes nothing of the
\* pipeline, so no step of a run changes the selection; removing at an index
\* outside the list leaves the list as it is.
C9_SelectionChangesOnlyByUser ==
    /\ [](/\ FilterIndexNot(files, Len(files), 0) = files
          /\ FilterIndexNot(files, -1, 0) = files)
    /\ [][files' # files =>
            /\ runs' = runs
            /\ isGenerating' = isGenerating
            /\ progress' = progress
            /\ downloads' = downloads
            /\ errorLog' = errorLog
            /\ \/ /\ Len(files') > Len(files)
                  /\ SubSeq(files', 1, Len(files)) = files
                  /\ SubSeq(files', Len(files) + 1, Len(files')) \in Accepted
               \/ \E k \in 1 .. Len(files) :
                    files' = SubSeq(files, 1, k - 1)
                               \o SubSeq(files, k + 1, Len(files))
         ]_vars

\* C9 witness: a run has ended with a download and the selection is still the
\* three files it was given.
C9_Witness ==
    /\ runs[1].pc = "done"
    /\ downloads = 1
    /\ files = << <<"a", ".", "b">>, <<"b", ".", "a", ".", "b">>,
                  <<"a", ".", "b">> >>

\* C10: at most one run is in progress at any time; isGenerating is true
\* exactly while a run is in progress, the Generate button is disabled then,
\* and a run starts only while isGenerating is false.
C10_AtMostOneRun ==
    /\ [](/\ Cardinality(InProgressIds) <= 1
          /\ isGenerating <=> InProgressIds # {}
          /\ isGenerating => GenerateDisabled)
    /\ [][\A r \in RunIds :
            (~Started(r) /\ runs'[r].pc # "unstarted") =>
                (~isGenerating /\ InProgressIds = {})
         ]_vars

\* C10 witness: a second run is in progress after the first has ended.
C10_Witness ==
    /\ runs[1].pc \in EndedPcs
    /\ runs[2].pc \in EntryPcs
    /\ runs[2].i >= 1

====
